---- MODULE Spec2Model ----
(***************************************************************************)
(* A model of the three example units of semantic-docstrings:              *)
(*   examples/class_example.py     IdentificationAgent (state + identify)  *)
(*   examples/module_example.py    process_message (payload validation)    *)
(*   examples/function_example.py  calculate_discount (capped discount)    *)
(*                                                                         *)
(* Python values are modelled as follows.  A str is a TLA+ string; None is *)
(* the reserved string None below, which no input string equals.  A dict   *)
(* is a function over Keys whose value Absent marks a key the dict does    *)
(* not hold.  A Decimal is a pair <<coefficient, exponent>> standing for   *)
(* coefficient * 10^exponent, and the Decimal operations are computed on   *)
(* that pair the way decimal.Decimal computes them (exact within the       *)
(* 28-digit context precision, which the bounded inputs never exceed).     *)
(***************************************************************************)
EXTENDS Integers, Sequences, FiniteSets, TLC

VARIABLES identified, account_uuid, log,
          payload, outcome,
          user_tier, amount, discount

vars == <<identified, account_uuid, log, payload, outcome, user_tier, amount, discount>>

agentVars == <<identified, account_uuid, log>>
messageVars == <<payload, outcome>>
discountVars == <<user_tier, amount, discount>>

(***************************************************************************)
(* Bounds of the model.                                                    *)
(***************************************************************************)
MaxCalls == 3
MaxTier == 8
MaxNegTier == 2
MaxCoef == 6
MaxNegCoef == 3

(***************************************************************************)
(* Python values.                                                          *)
(***************************************************************************)
None == "<None>"
Absent == "<absent>"

\* bool(v) for v a str or None: None and "" are falsy, every other str truthy.
Truthy(v) == v # None /\ v # ""

\* str.startswith(prefix)
startswith(s, prefix) ==
    /\ Len(s) >= Len(prefix)
    /\ SubSeq(s, 1, Len(prefix)) = prefix

(***************************************************************************)
(* class IdentificationAgent                                               *)
(***************************************************************************)
Tokens == {None, "", "valid-", "valid-abc", "valid-xyz", "valid", "bad-token", "in-valid-1"}

\* __init__: the state of a freshly constructed agent.
AgentInit == [identified |-> FALSE, account_uuid |-> None]

\* identify with the assignment of account_uuid left out.
identify_no_uuid(self, token) ==
    LET after == IF Truthy(token) /\ startswith(token, "valid-")
                 THEN [self EXCEPT !.identified = TRUE]
                 ELSE self
    IN  [self |-> after, ret |-> after.identified]

\* identify that sets the flag to the outcome of this call's check.
identify_toggle(self, token) ==
    LET ok == Truthy(token) /\ startswith(token, "valid-")
        after == IF ok
                 THEN [identified |-> TRUE, account_uuid |-> "uuid-1234"]
                 ELSE [identified |-> FALSE, account_uuid |-> None]
    IN  [self |-> after, ret |-> after.identified]

\* identify that derives the account from the token it was given.
identify_uuid_from_token(self, token) ==
    LET after == IF Truthy(token) /\ startswith(token, "valid-")
                 THEN [identified |-> TRUE, account_uuid |-> "uuid-" \o token]
                 ELSE self
    IN  [self |-> after, ret |-> after.identified]

\* identify that accepts any non-empty token.
identify_any_token(self, token) ==
    LET after == IF Truthy(token)
                 THEN [identified |-> TRUE, account_uuid |-> "uuid-1234"]
                 ELSE self
    IN  [self |-> after, ret |-> after.identified]

\* identify(self, token): the state after the call and the value returned.
identify(self, token) ==
    LET after == IF Truthy(token) /\ startswith(token, "valid-")
                 THEN [identified |-> TRUE, account_uuid |-> "uuid-1234"]
                 ELSE self
    IN  [self |-> after, ret |-> after.identified]

\* One call agent.identify(token) on the instance; log records each call's
\* token and return value in call order.
Identify(token) ==
    /\ Len(log) < MaxCalls
    /\ LET r == identify([identified |-> identified, account_uuid |-> account_uuid], token)
       IN  /\ identified' = r.self.identified
           /\ account_uuid' = r.self.account_uuid
           /\ log' = Append(log, [token |-> token, ret |-> r.ret])
    /\ UNCHANGED <<messageVars, discountVars>>

(***************************************************************************)
(* process_message                                                         *)
(***************************************************************************)
Keys == {"text", "session_id", "user_id", "chat_session_id", "chat_user_id", "extra"}

TextValues == {Absent, None, "", "hello"}
IdValues == {Absent, "a", "b"}
ExtraValues == {Absent, "x"}

Payloads ==
    {p \in [Keys -> TextValues \cup IdValues \cup ExtraValues] :
        /\ p["text"] \in TextValues
        /\ p["extra"] \in ExtraValues
        /\ \A k \in Keys \ {"text", "extra"} : p[k] \in IdValues}

\* dict.get(key): the value held, None when the key is not in the dict.
get(p, key) == IF p[key] = Absent THEN None ELSE p[key]

Pending == [status |-> "pending", value |-> <<>>]
Raised(exc) == [status |-> exc, value |-> <<>>]
Returned(v) == [status |-> "returned", value |-> v]

\* process_message that rejects only a missing text.
process_message_none_only(p) ==
    LET text == get(p, "text")
    IN  IF text = None
        THEN Raised("ValueError")
        ELSE Returned(<<text, get(p, "chat_session_id"), get(p, "chat_user_id")>>)

\* process_message with the two optional ids in the other order.
process_message_swapped(p) ==
    LET text == get(p, "text")
    IN  IF ~Truthy(text)
        THEN Raised("ValueError")
        ELSE Returned(<<text, get(p, "chat_user_id"), get(p, "chat_session_id")>>)

\* process_message(payload): ValueError, or the returned 3-tuple.
process_message(p) ==
    LET text == get(p, "text")
    IN  IF ~Truthy(text)
        THEN Raised("ValueError")
        ELSE Returned(<<text, get(p, "chat_session_id"), get(p, "chat_user_id")>>)

\* The call process_message(payload) on the payload received.
ProcessMessage ==
    /\ outcome = Pending
    /\ outcome' = process_message(payload)
    /\ UNCHANGED <<payload, agentVars, discountVars>>

\* The next payload arrives from the external source.
Receive ==
    /\ outcome # Pending
    /\ payload' \in Payloads
    /\ outcome' = Pending
    /\ UNCHANGED <<agentVars, discountVars>>

(***************************************************************************)
(* decimal.Decimal                                                         *)
(***************************************************************************)
RECURSIVE Pow10(_)
Pow10(n) == IF n = 0 THEN 1 ELSE 10 * Pow10(n - 1)

MinOf(a, b) == IF b < a THEN b ELSE a

\* Decimal(n) for an int n
DecimalOfInt(n) == <<n, 0>>

\* Decimal.__add__: exact sum, at the smaller of the two exponents
DecimalAdd(a, b) ==
    LET e == MinOf(a[2], b[2])
    IN  <<a[1] * Pow10(a[2] - e) + b[1] * Pow10(b[2] - e), e>>

\* Decimal.__mul__: coefficients multiply, exponents add
DecimalMul(a, b) == <<a[1] * b[1], a[2] + b[2]>>

\* Decimal.__lt__: comparison of the numeric values
DecimalLt(a, b) ==
    LET e == MinOf(a[2], b[2])
    IN  a[1] * Pow10(a[2] - e) < b[1] * Pow10(b[2] - e)

\* the builtin min(a, b): b when b < a, else a
DecimalMin(a, b) == IF DecimalLt(b, a) THEN b ELSE a

(***************************************************************************)
(* calculate_discount                                                      *)
(***************************************************************************)
\* Decimal("0.05"), the base rate and the rate added per tier
TierRate == <<5, -2>>

\* Decimal("0.3"), the cap rate
CapRate == <<3, -1>>

Tiers == (0 - MaxNegTier) .. MaxTier
AmountExponents == {-2, -1, 0}
Amounts == {<<c, e>> : c \in (0 - MaxNegCoef) .. MaxCoef, e \in AmountExponents}

\* calculate_discount without the cap.
calculate_discount_uncapped(tier, amt) ==
    IF DecimalLt(amt, DecimalOfInt(0))
    THEN Raised("ValueError")
    ELSE Returned(DecimalMul(amt, DecimalAdd(TierRate, DecimalMul(DecimalOfInt(tier), TierRate))))

\* calculate_discount(user_tier, amount): ValueError, or the Decimal returned.
calculate_discount(tier, amt) ==
    IF DecimalLt(amt, DecimalOfInt(0))
    THEN Raised("ValueError")
    ELSE LET base == DecimalAdd(TierRate, DecimalMul(DecimalOfInt(tier), TierRate))
             disc == DecimalMul(amt, base)
             cap == DecimalMul(amt, CapRate)
         IN  Returned(DecimalMin(disc, cap))

\* The call calculate_discount(user_tier, amount) on the inputs drawn.
CalculateDiscount ==
    /\ discount = Pending
    /\ discount' = calculate_discount(user_tier, amount)
    /\ UNCHANGED <<user_tier, amount, agentVars, messageVars>>

\* The next purchase: new arguments for the next call.
NewPurchase ==
    /\ discount # Pending
    /\ user_tier' \in Tiers
    /\ amount' \in Amounts
    /\ discount' = Pending
    /\ UNCHANGED <<agentVars, messageVars>>

(***************************************************************************)
(* Specifications                                                          *)
(***************************************************************************)
EmptyPayload == [k \in Keys |-> Absent]

AgentFresh ==
    /\ identified = AgentInit.identified
    /\ account_uuid = AgentInit.account_uuid
    /\ log = <<>>

\* An agent on which one identify call has succeeded.
AgentIdentified ==
    LET r == identify(AgentInit, "valid-abc")
    IN  /\ identified = r.self.identified
        /\ account_uuid = r.self.account_uuid
        /\ log = <<[token |-> "valid-abc", ret |-> r.ret]>>

MessageIdle == payload = EmptyPayload /\ outcome = Pending
DiscountIdle == user_tier = 0 /\ amount = DecimalOfInt(0) /\ discount = Pending

\* The agent: a fresh instance, then any sequence of identify calls.
Init == AgentFresh /\ MessageIdle /\ DiscountIdle
Next == \E token \in Tokens : Identify(token)
Spec == Init /\ [][Next]_vars

\* process_message: any payload, next to an agent in either of its states.
InitMessage ==
    /\ AgentFresh \/ AgentIdentified
    /\ payload \in Payloads
    /\ outcome = Pending
    /\ DiscountIdle
NextMessage == ProcessMessage \/ Receive
SpecMessage == InitMessage /\ [][NextMessage]_vars

\* calculate_discount: any tier and amount within the bounds.
InitDiscount ==
    /\ AgentFresh
    /\ MessageIdle
    /\ user_tier \in Tiers
    /\ amount \in Amounts
    /\ discount = Pending
NextDiscount == CalculateDiscount \/ NewPurchase
SpecDiscount == InitDiscount /\ [][NextDiscount]_vars

(***************************************************************************)
(* Properties                                                              *)
(***************************************************************************)
\* The call that has just been logged, and what "valid token" means.
LastCall == log[Len(log)]
ValidToken(t) == t # None /\ Len(t) >= 6 /\ SubSeq(t, 1, 6) = "valid-"

\* A step that is one completed call of process_message.
MessageProcessed == outcome = Pending /\ outcome' # Pending

\* C1: a payload whose text is absent or "" ends in a validation error, returns
\* no message and leaves the identification state as it was; a payload with a
\* non-empty text is accepted and that text is returned unchanged.
C1_TextRequired ==
    [][MessageProcessed =>
        /\ payload["text"] \in {Absent, ""} =>
              /\ outcome'.status = "ValueError"
              /\ outcome'.value = <<>>
              /\ UNCHANGED agentVars
        /\ payload["text"] \notin {Absent, None, ""} =>
              /\ outcome'.status = "returned"
              /\ outcome'.value[1] = payload["text"]]_vars

\* C1 witness: an empty text was rejected next to an identified agent.
C1_Witness ==
    /\ outcome.status = "ValueError"
    /\ payload["text"] = ""
    /\ payload["chat_session_id"] = "a"
    /\ identified

\* C2 as stated: an accepted message carries the payload's session_id and
\* user_id values, null when the key is absent.
C2_SessionIdKeys ==
    outcome.status = "returned" =>
        /\ outcome.value[2] = get(payload, "session_id")
        /\ outcome.value[3] = get(payload, "user_id")

\* C2 amended: an accepted message carries the payload's chat_session_id and
\* chat_user_id values, null when the key is absent, and no key other than
\* text, chat_session_id and chat_user_id has an effect on the result.
C2_ChatIdKeys ==
    outcome.status = "returned" =>
        /\ outcome.value[2] = (IF payload["chat_session_id"] = Absent
                               THEN None ELSE payload["chat_session_id"])
        /\ outcome.value[3] = (IF payload["chat_user_id"] = Absent
                               THEN None ELSE payload["chat_user_id"])
        /\ \A q \in Payloads :
              (\A k \in {"text", "chat_session_id", "chat_user_id"} : q[k] = payload[k])
                  => process_message(q) = outcome

\* C2 witness: an accepted payload holding one chat id, not the other, and
\* different values under the unread keys.
C2_Witness ==
    /\ outcome.status = "returned"
    /\ payload["chat_session_id"] = "a"
    /\ payload["chat_user_id"] = Absent
    /\ payload["session_id"] = "b"
    /\ payload["user_id"] = "a"
    /\ payload["extra"] = "x"

\* C3: after construction and after every identify call, account_uuid is
\* non-null exactly when identified is true.
C3_UuidIffIdentified == (account_uuid # None) <=> identified

\* C3 witness: an identified agent after a failed and a successful call.
C3_Witness ==
    /\ Len(log) = 2
    /\ log[1].token = None
    /\ log[2].token = "valid-abc"
    /\ identified
    /\ account_uuid # None

\* C4: the agent starts unidentified, and no identify call takes identified
\* from true back to false.
C4_IdentifiedMonotonic == (~identified) /\ [][identified => identified']_vars

\* C4 witness: still identified after a later call with an invalid token.
C4_Witness ==
    /\ Len(log) = 2
    /\ log[1].token = "valid-abc"
    /\ log[2].token = "bad-token"
    /\ identified

\* C5: once identified, every later call leaves account_uuid as first set.
C5_UuidFixed == [][identified => account_uuid' = account_uuid]_vars

\* C5 witness: two successful calls with different tokens.
C5_Witness ==
    /\ Len(log) = 2
    /\ log[1].token = "valid-abc"
    /\ log[2].token = "valid-xyz"
    /\ log[2].ret
    /\ account_uuid = "uuid-1234"

\* C6: on an unidentified agent a call with an invalid token returns false
\* and leaves identified false and account_uuid null, and a call with a valid
\* token (a first one or a retry) returns true and makes the agent identified.
C6_FailureThenRetry ==
    [][(~identified /\ Len(log') = Len(log) + 1) =>
        LET call == log'[Len(log')]
        IN  /\ ~ValidToken(call.token) =>
                  /\ call.ret = FALSE
                  /\ identified' = FALSE
                  /\ account_uuid' = None
            /\ ValidToken(call.token) =>
                  /\ call.ret = TRUE
                  /\ identified' = TRUE]_vars

\* C6 witness: a failed attempt followed by a successful retry.
C6_Witness ==
    /\ Len(log) = 2
    /\ log[1] = [token |-> "bad-token", ret |-> FALSE]
    /\ log[2] = [token |-> "valid-xyz", ret |-> TRUE]
    /\ identified

\* C7 as stated: every identify call returns true exactly when the token of
\* that call is valid, whatever calls came before it on the instance.
C7_ReturnsOwnTokenValidity ==
    log # <<>> => (LastCall.ret <=> ValidToken(LastCall.token))

\* C10: for amount >= 0 the discount equals the smaller of
\* amount * (0.05 + 0.05 * user_tier) and amount * 0.3 and so never exceeds
\* 30% of the amount; for amount < 0 the call raises ValueError and returns
\* nothing.  Amounts are compared in units of 10^-2, discounts in 10^-4.
C10_CappedDiscount ==
    discount # Pending =>
        LET cents == amount[1] * Pow10(amount[2] + 2)
        IN  IF cents < 0
            THEN discount.status = "ValueError" /\ discount.value = <<>>
            ELSE /\ discount.status = "returned"
                 /\ LET got == discount.value[1] * Pow10(discount.value[2] + 4)
                        byTier == cents * (5 + 5 * user_tier)
                        byCap == cents * 30
                    IN  /\ got = (IF byTier <= byCap THEN byTier ELSE byCap)
                        /\ got <= byCap

\* C10 witness: a discount that the cap, not the tier rate, decided.
C10_Witness ==
    /\ discount.status = "returned"
    /\ user_tier = 7
    /\ amount = <<5, -1>>
    /\ discount.value[1] * Pow10(discount.value[2] + 4) = 1500

====
